---- MODULE Spec2Model ----
(***************************************************************************)
(* Model of vivaldi_notes_parser (src/src/main.rs): the argument scan of   *)
(* parse_args, the leaf search of traverse_json, the summary of            *)
(* summary_traversal_helper and the dispatch and printing done by main.    *)
(*                                                                         *)
(* A Rust String is modelled as the sequence of its Unicode code points;   *)
(* its byte length and its char boundaries are computed from the UTF-8     *)
(* width of each code point.  A serde_json Value is a tagged record.       *)
(***************************************************************************)
EXTENDS Integers, Sequences, FiniteSets, TLC

VARIABLES pc, args, cmd, json, res, out

vars == <<pc, args, cmd, json, res, out>>

(***************************************************************************)
(* Bounds of the model.                                                    *)
(***************************************************************************)
\* largest number of tokens after the program name, every token drawn freely
MaxArgs == 3
\* largest number of flag and word pairs of the longer argument lists
MaxPairs == 3
\* largest number of tokens after the program name that main is run with
MaxMainArgs == 4
\* largest number of nodes of a document handed to traverse_json or to
\* summary_traversal_helper alone
MaxNodes == 4
\* largest number of nodes of a document read by main
MaxMainNodes == 2

(***************************************************************************)
(* Strings.                                                                *)
(***************************************************************************)
Min(a, b) == IF a <= b THEN a ELSE b

Rep(c, n) == [i \in 1..n |-> c]

RECURSIVE Concat(_)
Concat(ss) == IF ss = <<>> THEN <<>> ELSE Head(ss) \o Concat(Tail(ss))

\* number of bytes of the UTF-8 encoding of code point c
Utf8Len(c) == IF c < 128 THEN 1 ELSE IF c < 2048 THEN 2 ELSE IF c < 65536 THEN 3 ELSE 4

\* str::len: the length of a string in bytes
RECURSIVE ByteLen(_)
ByteLen(s) == IF s = <<>> THEN 0 ELSE Utf8Len(Head(s)) + ByteLen(Tail(s))

\* str::is_char_boundary: byte offset n starts a code point or ends s
IsCharBoundary(s, n) == \E k \in 0..Len(s) : ByteLen(SubSeq(s, 1, k)) = n

\* &s[..n]: the prefix of n bytes; the slice panics when n is not a char
\* boundary
SliceTo(s, n) ==
    IF IsCharBoundary(s, n)
    THEN [ok |-> TRUE,
          s |-> SubSeq(s, 1, CHOOSE k \in 0..Len(s) : ByteLen(SubSeq(s, 1, k)) = n)]
    ELSE [ok |-> FALSE]

\* str::contains with a string pattern
StrContains(s, c) ==
    \E i \in 0..(Len(s) - Len(c)) : SubSeq(s, i + 1, i + Len(c)) = c

(***************************************************************************)
(* The words the program compares against.                                 *)
(***************************************************************************)
H_SHORT == <<45, 104>>
H_LONG == <<45, 45, 104, 101, 108, 112>>
K_SHORT == <<45, 107>>
K_LONG == <<45, 45, 107, 101, 121>>
V_SHORT == <<45, 118>>
V_LONG == <<45, 45, 118, 97, 108, 117, 101>>
C_SHORT == <<45, 99>>
C_LONG == <<45, 45, 99, 111, 110, 116, 97, 105, 110, 115>>

ID == <<105, 100>>
SUBJECT == <<115, 117, 98, 106, 101, 99, 116>>
CONTENT == <<99, 111, 110, 116, 101, 110, 116>>
CHILDREN == <<99, 104, 105, 108, 100, 114, 101, 110>>

\* the 13 lines usage() prints
UsageText ==
    << <<85, 115, 97, 103, 101, 32, 111, 102, 32, 118, 105, 118, 97, 108, 100,
       105, 95, 110, 111, 116, 101, 115, 95, 112, 97, 114, 115, 101, 114,
       58>>,
       <<118, 105, 118, 97, 108, 100, 105, 95, 110, 111, 116, 101, 115, 95,
       112, 97, 114, 115, 101, 114, 32, 91, 45, 104, 47, 45, 45, 104, 101,
       108, 112, 93, 32, 91, 111, 112, 116, 105, 111, 110, 115, 93, 32, 91,
       102, 105, 108, 101, 93>>,
       <<>>,
       <<9, 45, 45, 104, 101, 108, 112, 47, 45, 104, 9, 9, 83, 104, 111, 119,
       32, 116, 104, 105, 115, 32, 117, 115, 97, 103, 101, 32, 109, 101, 115,
       115, 97, 103, 101>>,
       <<9, 45, 45, 107, 101, 121, 47, 45, 107, 32, 107, 101, 121, 9, 9, 83,
       101, 108, 101, 99, 116, 32, 116, 104, 101, 32, 110, 111, 116, 101, 32,
       119, 105, 116, 104, 32, 116, 104, 105, 115, 32, 107, 101, 121, 44, 32,
       101, 46, 103, 46, 58, 32, 45, 107, 32, 105, 100>>,
       <<9, 45, 45, 118, 97, 108, 117, 101, 47, 45, 118, 32, 118, 97, 108,
       117, 101, 9, 83, 101, 108, 101, 99, 116, 32, 116, 104, 101, 32, 110,
       111, 116, 101, 32, 119, 105, 116, 104, 32, 116, 104, 105, 115, 32, 99,
       104, 111, 115, 101, 110, 32, 107, 101, 121, 32, 97, 110, 100, 32, 116,
       104, 105, 115, 32, 118, 97, 108, 117, 101, 44, 32, 101, 46, 103, 46,
       58, 32, 45, 107, 32, 105, 100, 32, 45, 118, 32, 52, 53, 54>>,
       <<9, 45, 45, 99, 111, 110, 116, 97, 105, 110, 115, 47, 45, 99, 32, 99,
       111, 110, 116, 101, 110, 116, 115, 9, 83, 101, 108, 101, 99, 116, 32,
       116, 104, 101, 32, 110, 111, 116, 101, 32, 119, 105, 116, 104, 32, 116,
       104, 105, 115, 32, 99, 104, 111, 115, 101, 110, 32, 107, 101, 121, 32,
       97, 110, 100, 32, 99, 111, 110, 116, 97, 105, 110, 115, 32, 116, 104,
       101, 32, 103, 105, 118, 101, 110, 32, 99, 111, 110, 116, 101, 110, 116,
       115, 44, 32, 101, 46, 103, 46, 58, 32, 45, 107, 32, 99, 111, 110, 116,
       101, 110, 116, 115, 32, 45, 99, 32, 34, 83, 111, 109, 101, 32, 99, 111,
       110, 116, 101, 110, 116, 34>>,
       <<>>,
       <<9, 73, 102, 32, 110, 111, 32, 111, 112, 116, 105, 111, 110, 115, 32,
       97, 114, 101, 32, 115, 101, 108, 101, 99, 116, 101, 100, 44, 32, 116,
       104, 101, 32, 112, 97, 114, 115, 101, 114, 32, 119, 105, 108, 108, 32,
       112, 114, 105, 110, 116, 32, 97, 32, 115, 117, 109, 109, 97, 114, 121,
       32, 98, 121, 32, 116, 114, 97, 118, 101, 114, 115, 105, 110, 103, 32,
       116, 104, 101, 32, 110, 111, 116, 101, 115, 32, 116, 114, 101, 101, 32,
       119, 105, 116, 104, 32, 116, 104, 101, 115, 101, 32, 102, 105, 101,
       108, 100, 115, 58, 32, 123, 105, 100, 44, 32, 115, 117, 98, 106, 101,
       99, 116, 44, 32, 99, 111, 110, 116, 101, 110, 116, 91, 58, 50, 48, 93,
       44, 32, 99, 104, 105, 108, 100, 114, 101, 110, 125>>,
       <<>>,
       <<69, 120, 97, 109, 112, 108, 101, 115, 58>>,
       <<9, 118, 105, 118, 97, 108, 100, 105, 95, 110, 111, 116, 101, 115, 95,
       112, 97, 114, 115, 101, 114, 32, 45, 107, 32, 105, 100, 32, 45, 118,
       32, 52, 53, 54, 32, 78, 111, 116, 101, 115>>,
       <<9, 99, 97, 116, 32, 50, 48, 50, 50, 46, 48, 49, 46, 48, 55, 95, 50,
       49, 46, 48, 48, 46, 48, 49, 95, 78, 111, 116, 101, 115, 46, 98, 97,
       107, 32, 124, 32, 118, 105, 118, 97, 108, 100, 105, 95, 110, 111, 116,
       101, 115, 95, 112, 97, 114, 115, 101, 114, 32, 45, 107, 32, 115, 117,
       98, 106, 101, 99, 116, 32, 45, 118, 32, 34, 84, 111, 100, 111, 32, 81,
       117, 101, 117, 101, 34>> >>

(***************************************************************************)
(* Option, Args and Input (lines 26-39).                                   *)
(***************************************************************************)
None == [some |-> FALSE]
Some(x) == [some |-> TRUE, v |-> x]

Stdin == [t |-> "Stdin"]
File(name) == [t |-> "File", name |-> name]

Help == [t |-> "Help"]
Key(key, val, contains, input) ==
    [t |-> "Key", key |-> key, val |-> val, contains |-> contains, input |-> input]

(***************************************************************************)
(* parse_args (lines 43-100).  Positions are 1-based: the token the code   *)
(* calls index i stands at position i + 1.                                 *)
(***************************************************************************)
\* the locals of parse_args before the loop (lines 46-49)
ScanInit == [key |-> None, val |-> None, contains |-> None, input |-> Stdin]

\* NextWord with a missing token taken as the empty string instead of None
NextWordOrEmpty(a, i) == IF i + 1 <= Len(a) THEN Some(a[i + 1]) ELSE Some(<<>>)

\* args_iter.next() inside a flag arm: the token after position i, if any
NextWord(a, i) == IF i + 1 <= Len(a) THEN Some(a[i + 1]) ELSE None

\* IsLastArg with the guard dropped: any other token becomes the file
IsLastArgAlways(a, i) == TRUE

\* the guard n == args.len() - 1 of the file arm
IsLastArg(a, i) == i = Len(a)

\* the while loop from the token at position i on, st being the locals; the
\* result tells whether the loop returned Args::Help and, if it did not, the
\* locals when the loop ended
RECURSIVE Scan(_, _, _)
Scan(a, i, st) ==
    IF i > Len(a) THEN [help |-> FALSE, st |-> st]
    ELSE IF i = 1 THEN Scan(a, i + 1, st)
    ELSE IF a[i] \in {H_SHORT, H_LONG} THEN [help |-> TRUE]
    ELSE IF a[i] \in {K_SHORT, K_LONG} THEN
        IF NextWord(a, i).some
        THEN Scan(a, i + 2, [st EXCEPT !.key = Some(NextWord(a, i).v)])
        ELSE [help |-> TRUE]
    ELSE IF a[i] \in {V_SHORT, V_LONG} THEN
        IF NextWord(a, i).some
        THEN Scan(a, i + 2, [st EXCEPT !.val = Some(NextWord(a, i).v)])
        ELSE [help |-> TRUE]
    ELSE IF a[i] \in {C_SHORT, C_LONG} THEN
        IF NextWord(a, i).some
        THEN Scan(a, i + 2, [st EXCEPT !.contains = Some(NextWord(a, i).v)])
        ELSE [help |-> TRUE]
    ELSE IF IsLastArg(a, i) THEN Scan(a, i + 1, [st EXCEPT !.input = File(a[i])])
    ELSE Scan(a, i + 1, st)

\* FinishArgs without the check of lines 92-94
FinishArgsNoExclusion(st) ==
    IF ~st.key.some /\ (st.val.some \/ st.contains.some) THEN Help
    ELSE Key(st.key, st.val, st.contains, st.input)

\* the checks after the loop (lines 92-99)
FinishArgs(st) ==
    IF st.val.some /\ st.contains.some THEN Help
    ELSE IF ~st.key.some /\ (st.val.some \/ st.contains.some) THEN Help
    ELSE Key(st.key, st.val, st.contains, st.input)

parse_args(a) ==
    LET s == Scan(a, 1, ScanInit)
    IN  IF s.help THEN Help ELSE FinishArgs(s.st)

(***************************************************************************)
(* serde_json::Value.  An object is a function from its keys to values.    *)
(***************************************************************************)
Null == [t |-> "null"]
JNum(n) == [t |-> "num", n |-> n]
JStr(s) == [t |-> "str", s |-> s]
JArr(a) == [t |-> "arr", a |-> a]
JObj(f) == [t |-> "obj", f |-> f]

\* json!({})
EmptyObj == JObj(<<>>)

\* &json[key]: Null unless json is an object that has the key
Index(v, k) == IF v.t = "obj" /\ k \in DOMAIN v.f THEN v.f[k] ELSE Null

\* res[key] = value on an object
With(o, k, v) == JObj([x \in DOMAIN o.f \cup {k} |-> IF x = k THEN v ELSE o.f[x]])

(***************************************************************************)
(* traverse_json (lines 104-132).                                          *)
(***************************************************************************)
\* ChildrenOf without the is_empty guard: an empty array is kept
ChildrenOfAnyArray(v) ==
    IF Index(v, CHILDREN).t = "arr" THEN Index(v, CHILDREN) ELSE Null

\* the local children: the children array when it is a non-empty array,
\* Null otherwise (lines 110-113)
ChildrenOf(v) ==
    IF Index(v, CHILDREN).t = "arr" /\ Index(v, CHILDREN).a # <<>>
    THEN Index(v, CHILDREN)
    ELSE Null

\* ExactArm with a missing value accepted as matching any string
ExactArmAnyValue(children, k, content, val, contains) ==
    /\ children.t = "null"
    /\ k.t = "str"
    /\ content.t = "str"
    /\ ~contains.some
    /\ val.some => k.s = val.v

\* the pattern and guard of the first match arm (line 115)
ExactArm(children, k, content, val, contains) ==
    /\ children.t = "null"
    /\ k.t = "str"
    /\ content.t = "str"
    /\ val.some
    /\ ~contains.some
    /\ k.s = val.v

\* the pattern and guard of the second match arm (line 118)
ContainsArm(children, k, content, val, contains) ==
    /\ children.t = "null"
    /\ k.t = "str"
    /\ content.t = "str"
    /\ ~val.some
    /\ contains.some
    /\ StrContains(k.s, contains.v)

RECURSIVE traverse_json(_, _, _, _)
RECURSIVE TraverseChildren(_, _, _, _, _)

\* the for loop of lines 122-128 from child i on
TraverseChildren(key, val, contains, cs, i) ==
    IF i > Len(cs) THEN None
    ELSE IF traverse_json(key, val, contains, cs[i]).some
         THEN traverse_json(key, val, contains, cs[i])
         ELSE TraverseChildren(key, val, contains, cs, i + 1)

traverse_json(key, val, contains, v) ==
    LET children == ChildrenOf(v)
        k == Index(v, key)
        content == Index(v, CONTENT)
    IN  IF ExactArm(children, k, content, val, contains) THEN Some(content.s)
        ELSE IF ContainsArm(children, k, content, val, contains) THEN Some(content.s)
        ELSE IF children.t = "arr" THEN TraverseChildren(key, val, contains, children.a, 1)
        ELSE None

(***************************************************************************)
(* summary_traversal_helper and summary_traversal (lines 136-163).         *)
(***************************************************************************)
\* the bound of the two slices of lines 146 and 149
TruncLen == 30

\* the outcome of a call that panicked
Panic == [t |-> "panic"]

\* &s[..std::cmp::min(30, s.len())]
Truncate(s) == SliceTo(s, Min(TruncLen, ByteLen(s)))

RECURSIVE summary_traversal_helper(_)
summary_traversal_helper(v) ==
    LET id == Index(v, ID)
        subject == Index(v, SUBJECT)
        content == Index(v, CONTENT)
        children == Index(v, CHILDREN)
        r1 == IF id.t = "str" THEN With(EmptyObj, ID, JStr(id.s)) ELSE EmptyObj
    IN  IF subject.t = "str" /\ ~Truncate(subject.s).ok THEN Panic
        ELSE
        LET r2 == IF subject.t = "str"
                  THEN With(r1, SUBJECT, JStr(Truncate(subject.s).s))
                  ELSE r1
        IN  IF content.t = "str" /\ ~Truncate(content.s).ok THEN Panic
            ELSE
            LET r3 == IF content.t = "str"
                      THEN With(r2, CONTENT, JStr(Truncate(content.s).s))
                      ELSE r2
            IN  IF children.t = "arr" /\ children.a # <<>>
                THEN LET parsed == [i \in 1..Len(children.a) |->
                                        summary_traversal_helper(children.a[i])]
                     IN  IF \E i \in 1..Len(parsed) : parsed[i].t = "panic"
                         THEN Panic
                         ELSE With(r3, CHILDREN, JArr(parsed))
                ELSE r3

\* serde_json's escaping of a string: the quote and the backslash
Escape(s) == Concat([i \in 1..Len(s) |-> IF s[i] \in {34, 92} THEN <<92, s[i]>> ELSE <<s[i]>>])

Quote(s) == <<34>> \o Escape(s) \o <<34>>

Indent(d) == Rep(32, 2 * d)

\* byte order of two different strings
RECURSIVE StrLess(_, _)
StrLess(a, b) ==
    IF a = <<>> THEN b # <<>>
    ELSE IF b = <<>> THEN FALSE
    ELSE IF Head(a) # Head(b) THEN Head(a) < Head(b)
    ELSE StrLess(Tail(a), Tail(b))

\* the keys of an object in the order serde_json's map iterates them
RECURSIVE SortedKeys(_)
SortedKeys(ks) ==
    IF ks = {} THEN <<>>
    ELSE LET m == CHOOSE x \in ks : \A y \in ks \ {x} : StrLess(x, y)
         IN  <<m>> \o SortedKeys(ks \ {m})

\* items separated by ",\n", each on its own indented line
RECURSIVE JoinItems(_, _)
JoinItems(items, d) ==
    IF items = <<>> THEN <<>>
    ELSE <<10>> \o Indent(d) \o Head(items)
         \o (IF Len(items) > 1 THEN <<44>> ELSE <<>>)
         \o JoinItems(Tail(items), d)

\* serde_json::to_string_pretty of a value nested d levels deep
RECURSIVE Pretty(_, _)
Pretty(v, d) ==
    IF v.t = "null" THEN <<110, 117, 108, 108>>
    ELSE IF v.t = "num" THEN <<48 + v.n>>
    ELSE IF v.t = "str" THEN Quote(v.s)
    ELSE IF v.t = "arr" THEN
        IF v.a = <<>> THEN <<91, 93>>
        ELSE <<91>>
             \o JoinItems([i \in 1..Len(v.a) |-> Pretty(v.a[i], d + 1)], d + 1)
             \o <<10>> \o Indent(d) \o <<93>>
    ELSE
        IF DOMAIN v.f = {} THEN <<123, 125>>
        ELSE LET ks == SortedKeys(DOMAIN v.f)
             IN  <<123>>
                 \o JoinItems([i \in 1..Len(ks) |->
                        Quote(ks[i]) \o <<58, 32>> \o Pretty(v.f[ks[i]], d + 1)], d + 1)
                 \o <<10>> \o Indent(d) \o <<125>>

\* summary_traversal giving None for a summary without any field
summary_traversal_skip_empty(v) ==
    IF summary_traversal_helper(v).t = "panic" THEN Panic
    ELSE IF summary_traversal_helper(v) = EmptyObj THEN None
    ELSE Some(Pretty(summary_traversal_helper(v), 0))

\* summary_traversal: Some(text) whenever the helper returns
summary_traversal(v) ==
    IF summary_traversal_helper(v).t = "panic" THEN Panic
    ELSE Some(Pretty(summary_traversal_helper(v), 0))

\* whether a call ended in a panic instead of a return value
IsPanic(r) == "t" \in DOMAIN r /\ r.t = "panic"

(***************************************************************************)
(* Inputs: argument lists and documents.                                   *)
(***************************************************************************)
ONE == <<49>>
TWO == <<50>>
TWENTY_ONE == <<50, 49>>

\* the tokens an argument list is made of: every flag and two other words
Tokens == {H_SHORT, H_LONG, K_SHORT, K_LONG, V_SHORT, V_LONG, C_SHORT, C_LONG, ID, ONE}

\* the token at index 0; it is skipped whatever it is
ProgNames == {<<86>>, H_SHORT}

SeqsUpTo(S, n) == UNION {[1..k -> S] : k \in 0..n}

\* the flags that take the next token
TakingFlags == {K_SHORT, K_LONG, V_SHORT, V_LONG, C_SHORT, C_LONG}

\* a flag followed by a word, as in "-k id"
Pairs == {<<f, w>> : f \in TakingFlags, w \in {ID, ONE}}

\* argument lists: every list of up to MaxArgs tokens, and the longer lists
\* made of up to MaxPairs pairs with or without a file name at the end
FreeArgLists == {<<p>> \o t : p \in ProgNames, t \in SeqsUpTo(Tokens, MaxArgs)}

PairedArgLists ==
    {<<(<<86>>)>> \o Concat(ps) \o tl : ps \in SeqsUpTo(Pairs, MaxPairs), tl \in {<<>>, <<TWO>>}}

ArgLists == {<<>>} \cup FreeArgLists \cup PairedArgLists

MainArgLists == {a \in ArgLists : Len(a) <= 1 + MaxMainArgs}

\* the documents with exactly n nodes whose nodes without children are drawn
\* from leaves and whose other nodes are an object of inner plus a children
\* array
RECURSIVE TreesOf(_, _, _)
RECURSIVE ForestsOf(_, _, _)
TreesOf(n, leaves, inner) ==
    IF n = 1 THEN leaves
    ELSE {With(o, CHILDREN, JArr(f)) : o \in inner, f \in ForestsOf(n - 1, leaves, inner)}

ForestsOf(m, leaves, inner) ==
    IF m = 0 THEN {<<>>}
    ELSE UNION {{<<t>> \o f : t \in TreesOf(k, leaves, inner),
                              f \in ForestsOf(m - k, leaves, inner)} : k \in 1..m}

DocsUpTo(n, leaves, inner) == UNION {TreesOf(k, leaves, inner) : k \in 1..n}

Obj1(k1, v1) == With(EmptyObj, k1, v1)
Obj2(k1, v1, k2, v2) == With(Obj1(k1, v1), k2, v2)
Obj3(k1, v1, k2, v2, k3, v3) == With(Obj2(k1, v1, k2, v2), k3, v3)
Obj4(k1, v1, k2, v2, k3, v3, k4, v4) == With(Obj3(k1, v1, k2, v2, k3, v3), k4, v4)

\* nodes for the search: string, number and missing fields, and every kind of
\* children field that keeps a node a leaf
SearchLeaves ==
    { Obj2(ID, JStr(ONE), CONTENT, JStr(<<120>>)),
      Obj4(ID, JStr(ONE), SUBJECT, JStr(TWENTY_ONE), CONTENT, JStr(<<121>>), CHILDREN, JArr(<<>>)),
      Obj3(ID, JStr(TWENTY_ONE), CONTENT, JStr(<<122>>), CHILDREN, Null),
      Obj2(ID, JStr(ONE), CONTENT, JNum(7)),
      Obj4(ID, JNum(7), SUBJECT, JStr(ONE), CONTENT, JStr(<<119>>), CHILDREN, JStr(ONE)),
      JStr(ONE) }

SearchInner == { Obj3(ID, JStr(ONE), SUBJECT, JStr(ONE), CONTENT, JStr(<<112>>)), EmptyObj }

SearchDocs == DocsUpTo(MaxNodes, SearchLeaves, SearchInner)

SearchKeys == {ID, SUBJECT}
SearchVals == {None, Some(ONE), Some(TWENTY_ONE)}
SearchContains == {None, Some(ONE)}

\* strings around the 30 byte bound: ASCII of 30 and 31 bytes, a two byte
\* character across byte 30, and 20 two byte characters
Ascii31 == Rep(97, 31)
Ascii30 == Rep(97, 30)
Split30 == Rep(97, 29) \o <<233, 98>>
Wide20 == Rep(233, 20)
Euro10 == Rep(8364, 10)

SummaryLeaves ==
    { Obj3(ID, JStr(Ascii31), SUBJECT, JStr(Ascii31), CONTENT, JStr(Ascii30)),
      Obj2(ID, JStr(ONE), SUBJECT, JStr(Split30)),
      Obj2(ID, JStr(TWO), CONTENT, JStr(Wide20)),
      Obj4(ID, JNum(7), SUBJECT, Null, CONTENT, JStr(<<97, 98>>), CHILDREN, JArr(<<>>)),
      Obj2(SUBJECT, JStr(<<97, 98>>), CONTENT, JStr(Euro10)),
      EmptyObj,
      Null }

SummaryInner == { Obj2(ID, JStr(ONE), SUBJECT, JStr(Ascii31)), EmptyObj }

SummaryDocs == DocsUpTo(MaxNodes, SummaryLeaves, SummaryInner)

MainLeaves ==
    { Obj2(ID, JStr(ONE), CONTENT, JStr(<<120>>)),
      Obj3(ID, JStr(TWENTY_ONE), CONTENT, JStr(Ascii31), CHILDREN, JArr(<<>>)),
      Obj2(ID, JStr(ONE), SUBJECT, JStr(Split30)),
      Obj2(ID, JNum(7), CHILDREN, JStr(ONE)),
      EmptyObj,
      JArr(<<>>) }

MainInner == { Obj2(ID, JStr(ONE), CONTENT, JStr(<<112>>)), EmptyObj }

MainDocs == DocsUpTo(MaxMainNodes, MainLeaves, MainInner)

(***************************************************************************)
(* The program: main (lines 165-194).                                      *)
(***************************************************************************)
\* cmd before parse_args has returned
NoCmd == [t |-> "none"]

Init ==
    /\ pc = "start"
    /\ args \in MainArgLists
    /\ cmd = NoCmd
    /\ json = Null
    /\ res = None
    /\ out = <<>>

\* line 166
MainParse ==
    /\ pc = "start"
    /\ cmd' = parse_args(args)
    /\ pc' = "parsed"
    /\ UNCHANGED <<args, json, res, out>>

\* lines 167-170
MainUsage ==
    /\ pc = "parsed"
    /\ cmd.t = "Help"
    /\ out' = out \o UsageText
    /\ pc' = "done"
    /\ UNCHANGED <<args, cmd, json, res>>

\* lines 176-183, the input read and parsed
MainRead ==
    /\ pc = "parsed"
    /\ cmd.t = "Key"
    /\ json' \in MainDocs
    /\ pc' = "loaded"
    /\ UNCHANGED <<args, cmd, res, out>>

\* lines 177 and 183, the ? of a read or a parse that failed
MainReadErr ==
    /\ pc = "parsed"
    /\ cmd.t = "Key"
    /\ pc' = "error"
    /\ UNCHANGED <<args, cmd, json, res, out>>

\* lines 185-191 with a key
MainSearch ==
    /\ pc = "loaded"
    /\ cmd.key.some
    /\ res' = traverse_json(cmd.key.v, cmd.val, cmd.contains, json)
    /\ out' = IF res'.some THEN Append(out, res'.v) ELSE out
    /\ pc' = "done"
    /\ UNCHANGED <<args, cmd, json>>

\* lines 185-191 without a key
MainSummary ==
    /\ pc = "loaded"
    /\ ~cmd.key.some
    /\ res' = summary_traversal(json)
    /\ IF IsPanic(res')
       THEN pc' = "panic" /\ out' = out
       ELSE pc' = "done" /\ out' = IF res'.some THEN Append(out, res'.v) ELSE out
    /\ UNCHANGED <<args, cmd, json>>

Next ==
    \/ MainParse
    \/ MainUsage
    \/ MainRead
    \/ MainReadErr
    \/ MainSearch
    \/ MainSummary

Spec == Init /\ [][Next]_vars

\* parse_args alone, on every argument list
InitArgs ==
    /\ pc = "start"
    /\ args \in ArgLists
    /\ cmd = NoCmd
    /\ json = Null
    /\ res = None
    /\ out = <<>>

SpecArgs == InitArgs /\ [][MainParse]_vars

(***************************************************************************)
(* traverse_json alone, on every key, criterion and document.              *)
(***************************************************************************)
InitSearch ==
    /\ pc = "call"
    /\ args = <<>>
    /\ cmd \in {Key(Some(k), v, c, Stdin) : k \in SearchKeys, v \in SearchVals, c \in SearchContains}
    /\ json \in SearchDocs
    /\ res = None
    /\ out = <<>>

CallTraverse ==
    /\ pc = "call"
    /\ res' = traverse_json(cmd.key.v, cmd.val, cmd.contains, json)
    /\ pc' = "done"
    /\ UNCHANGED <<args, cmd, json, out>>

SpecSearch == InitSearch /\ [][CallTraverse]_vars

(***************************************************************************)
(* summary_traversal_helper alone, on every document.                      *)
(***************************************************************************)
InitSummary ==
    /\ pc = "call"
    /\ args = <<>>
    /\ cmd = NoCmd
    /\ json \in SummaryDocs
    /\ res = None
    /\ out = <<>>

CallSummary ==
    /\ pc = "call"
    /\ res' = summary_traversal_helper(json)
    /\ pc' = "done"
    /\ UNCHANGED <<args, cmd, json, out>>

SpecSummary == InitSummary /\ [][CallSummary]_vars

(***************************************************************************)
(* Properties of parse_args, checked under SpecArgs.                       *)
(***************************************************************************)
HelpFlags == {H_SHORT, H_LONG}
AllFlags == HelpFlags \cup TakingFlags

\* the token at position i is the argument of the flag before it: that flag
\* stands after the program name and is not itself the argument of a flag
RECURSIVE TakenAsValue(_, _)
TakenAsValue(a, i) ==
    /\ i >= 3
    /\ i <= Len(a)
    /\ a[i - 1] \in TakingFlags
    /\ ~TakenAsValue(a, i - 1)

\* a flag of F stands in the list as a flag and a token follows it
Supplies(a, F) ==
    \E i \in 2..(Len(a) - 1) : a[i] \in F /\ ~TakenAsValue(a, i)

\* C2: every argument list with -h or --help at an index >= 1 parses to Help,
\* wherever the token stands
C2_HelpAnywhere ==
    (pc = "parsed" /\ \E i \in 2..Len(args) : args[i] \in HelpFlags)
        => cmd.t = "Help"

\* C3: the command is Help or a Search whose value and substring are not
\* both set and whose key is set when either is; a list that supplies both a
\* value and a substring, or one of them and no key, parses to Help
C3_SearchWellFormed ==
    pc = "parsed" =>
        /\ \/ cmd.t = "Help"
           \/ /\ cmd.t = "Key"
              /\ ~(cmd.val.some /\ cmd.contains.some)
              /\ (cmd.val.some \/ cmd.contains.some) => cmd.key.some
        /\ (Supplies(args, {V_SHORT, V_LONG}) /\ Supplies(args, {C_SHORT, C_LONG}))
               => cmd.t = "Help"
        /\ (/\ Supplies(args, {V_SHORT, V_LONG}) \/ Supplies(args, {C_SHORT, C_LONG})
            /\ ~Supplies(args, {K_SHORT, K_LONG}))
               => cmd.t = "Help"

\* a list with a key, a value and a substring, no help flag and a file name
\* has been parsed to Help
C3_Witness ==
    /\ pc = "parsed"
    /\ Len(args) = 8
    /\ Supplies(args, {K_SHORT, K_LONG})
    /\ Supplies(args, {V_SHORT, V_LONG})
    /\ Supplies(args, {C_SHORT, C_LONG})
    /\ args[8] = TWO
    /\ cmd.t = "Help"

\* C4 as stated: every list whose last token, at an index >= 1, is -k, -v or
\* -c (or the long form) parses to Help
C4_TrailingFlagHelp ==
    (pc = "parsed" /\ Len(args) >= 2 /\ args[Len(args)] \in TakingFlags)
        => cmd.t = "Help"

\* C4 amended: every list whose last token, at an index >= 1, is -k, -v or -c
\* (or the long form) and is not the argument of the flag before it parses to
\* Help
C4_TrailingFlagHelpAmended ==
    (/\ pc = "parsed"
     /\ Len(args) >= 2
     /\ args[Len(args)] \in TakingFlags
     /\ ~TakenAsValue(args, Len(args)))
        => cmd.t = "Help"

\* "-k id -v": the last token is a flag with nothing after it, no help flag
\* stands in the list, and the list has been parsed to Help
C4_Witness ==
    /\ pc = "parsed"
    /\ Len(args) = 4
    /\ args[2] \in {K_SHORT, K_LONG}
    /\ args[3] = ID
    /\ args[4] \in {V_SHORT, V_LONG}
    /\ cmd.t = "Help"

C6_NoArgsHelp ==
    (pc = "parsed" /\ Len(args) = 1) => cmd.t = "Help"

(***************************************************************************)
(* Properties of traverse_json, checked under SpecSearch.                  *)
(***************************************************************************)
\* a node is a leaf: children absent, null, not an array, or an empty array
IsLeaf(v) ==
    \/ v.t # "obj"
    \/ CHILDREN \notin DOMAIN v.f
    \/ v.f[CHILDREN].t # "arr"
    \/ v.f[CHILDREN].a = <<>>

\* the leaves of a document in document order
RECURSIVE LeavesOf(_)
LeavesOf(v) ==
    IF IsLeaf(v) THEN <<v>>
    ELSE Concat([i \in 1..Len(v.f[CHILDREN].a) |-> LeavesOf(v.f[CHILDREN].a[i])])

\* a node has the string field key meeting the criterion and a string content
Satisfies(v, key, val, contains) ==
    /\ v.t = "obj"
    /\ key \in DOMAIN v.f
    /\ v.f[key].t = "str"
    /\ CONTENT \in DOMAIN v.f
    /\ v.f[CONTENT].t = "str"
    /\ val.some => v.f[key].s = val.v
    /\ contains.some =>
           \E i \in 1..(Len(v.f[key].s) + 1), j \in 0..Len(v.f[key].s) :
               SubSeq(v.f[key].s, i, j) = contains.v

\* the content of the first leaf that satisfies the criterion, if there is one
FirstHit(leaves, key, val, contains) ==
    LET hits == {i \in 1..Len(leaves) : Satisfies(leaves[i], key, val, contains)}
    IN  IF hits = {} THEN None
        ELSE Some(leaves[CHOOSE i \in hits : \A j \in hits : i <= j].f[CONTENT].s)

\* C1: with exactly one of a value and a substring, traverse_json returns the
\* content of the first leaf in document order whose field key is a string
\* meeting the criterion and whose content is a string, and no match when
\* there is no such leaf; a node with children is never returned itself
C1_FirstMatchingLeaf ==
    (pc = "done" /\ cmd.val.some # cmd.contains.some)
        => res = FirstHit(LeavesOf(json), cmd.key.v, cmd.val, cmd.contains)

\* the root has children and satisfies the criterion itself, the first leaf
\* does not, two later leaves with different contents do, and the result is
\* the content of the earlier one
C1_Witness ==
    /\ pc = "done"
    /\ cmd.val.some # cmd.contains.some
    /\ ~IsLeaf(json)
    /\ Satisfies(json, cmd.key.v, cmd.val, cmd.contains)
    /\ LET leaves == LeavesOf(json)
       IN  /\ Len(leaves) = 3
           /\ ~Satisfies(leaves[1], cmd.key.v, cmd.val, cmd.contains)
           /\ Satisfies(leaves[2], cmd.key.v, cmd.val, cmd.contains)
           /\ Satisfies(leaves[3], cmd.key.v, cmd.val, cmd.contains)
           /\ leaves[2].f[CONTENT].s # leaves[3].f[CONTENT].s
           /\ res = Some(leaves[2].f[CONTENT].s)

(***************************************************************************)
(* Properties of summary_traversal_helper, checked under SpecSummary.      *)
(***************************************************************************)
\* the first min(30, length) characters of a string
FirstChars(s) == SubSeq(s, 1, Min(TruncLen, Len(s)))

\* the summary the specification describes: id unchanged, subject and content
\* cut to 30 characters, children summarised in order, nothing else
RECURSIVE DescribedSummary(_)
DescribedSummary(v) ==
    LET has(k) == v.t = "obj" /\ k \in DOMAIN v.f /\ v.f[k].t = "str"
        keys == {k \in {ID, SUBJECT, CONTENT} : has(k)}
                    \cup (IF IsLeaf(v) THEN {} ELSE {CHILDREN})
    IN  JObj([k \in keys |->
                IF k = ID THEN JStr(v.f[ID].s)
                ELSE IF k = CHILDREN
                     THEN JArr([i \in 1..Len(v.f[CHILDREN].a) |->
                                    DescribedSummary(v.f[CHILDREN].a[i])])
                     ELSE JStr(FirstChars(v.f[k].s))])

\* C7: summary_traversal_helper completes on every document, also when a
\* subject or content longer than 30 bytes holds multi-byte characters
C7_SummaryNeverFaults ==
    pc = "done" => ~IsPanic(res)

\* C8: the summary of a node holds exactly id unchanged, subject and content
\* cut to their first min(30, length) characters, and the summaries of the
\* children in order when there are children
C8_SummaryFields ==
    (pc = "done" /\ ~IsPanic(res)) => res = DescribedSummary(json)

(***************************************************************************)
(* Properties of the whole program, checked under Spec.                    *)
(***************************************************************************)
\* no key, value or substring was supplied: the command is a Search without
\* a key
SummaryMode == cmd.t = "Key" /\ ~cmd.key.some

\* the root is an object with a string id, subject or content or with a
\* non-empty children array
Navigable(v) ==
    /\ v.t = "obj"
    /\ \/ \E k \in {ID, SUBJECT, CONTENT} : k \in DOMAIN v.f /\ v.f[k].t = "str"
       \/ ~IsLeaf(v)

KeyAlone(a) ==
    /\ Supplies(a, {K_SHORT, K_LONG})
    /\ ~Supplies(a, {V_SHORT, V_LONG})
    /\ ~Supplies(a, {C_SHORT, C_LONG})
    /\ ~\E i \in 2..Len(a) : a[i] \in HelpFlags /\ ~TakenAsValue(a, i)
    /\ ~(a[Len(a)] \in TakingFlags /\ ~TakenAsValue(a, Len(a)))

\* C10: a key supplied with neither a value nor a substring gives a Search
\* with the key set, and on every document the search finds no match and the
\* program prints nothing
C10_KeyAlonePrintsNothing ==
    (pc # "start" /\ KeyAlone(args)) =>
        /\ cmd.t = "Key"
        /\ cmd.key.some
        /\ ~cmd.val.some
        /\ ~cmd.contains.some
        /\ pc \in {"parsed", "loaded", "error", "done"}
        /\ pc = "done" => ~res.some
        /\ out = <<>>

\* main has run with "-k id" on a document whose only node has a string id
\* and a string content, and has printed nothing
C10_Witness ==
    /\ pc = "done"
    /\ KeyAlone(args)
    /\ cmd.key = Some(ID)
    /\ json = Obj2(ID, JStr(ONE), CONTENT, JStr(<<120>>))
    /\ res = None
    /\ out = <<>>

====
